---- MODULE Spec2Model ----
(***************************************************************************)
(* AiAbimees: the plant registry, plant catalog, reminder scheduler and    *)
(* health log services (src/Server/errorHandler.js, src/unnamed/part_006)  *)
(* and the route handlers that call them (src/Server/app.js), over the     *)
(* relational store they share.                                            *)
(*                                                                         *)
(* A nullable column or optional argument is a set with at most one        *)
(* element: {} is NULL / undefined, {v} is the value v.  Dates are day     *)
(* numbers, instants are hours since 00:00 UTC of day 0.                   *)
(***************************************************************************)
EXTENDS Integers, Sequences, FiniteSets, TLC

VARIABLES
    all_plants,       \* table all_plants: plant_id -> row
    user_plants,      \* table user_plants: user_plant_id -> row
    plant_reminders,  \* table plant_reminders: reminder_id -> row
    plant_health,     \* table plant_health: health_id -> row
    autoInc,          \* AUTO_INCREMENT counter of each table
    now,              \* the server clock, in hours since 00:00 UTC of day 0
    tz,               \* the time zone of the server process
    calls,            \* the service calls in progress that overlap: call -> position
    rolledBack,       \* the all_plants ids inserted by transactions rolled back
    users,            \* table users: user_id -> row
    sessions          \* the session store: session id -> req.session.user

vars == <<all_plants, user_plants, plant_reminders, plant_health, autoInc, now, tz,
          calls, rolledBack, users, sessions>>

tables == <<all_plants, user_plants, plant_reminders, plant_health>>

-----------------------------------------------------------------------------
(* Bounds *)

MaxPlants == 2
MaxTypes == 2
MaxReminders == 2
MaxHealth == 2
MaxDay == 2
MaxCalls == 2

Users == {1, 2}
PlantIds == 1..MaxPlants
Calls == 1..MaxCalls
Cultivars == {"Roma", "Cherry"}
SpeciesSet == {"Tomato"}

\* the planting_time, est_cropping and photo of the forms the model submits
PlainForm == [plantingTime |-> 0, est |-> {""}, photo |-> {""}]
PlantForms ==
    {PlainForm,
     [plantingTime |-> 1, est |-> {"60"}, photo |-> {"/uploads/a.jpg"}],
     [plantingTime |-> 1, est |-> {"30"}, photo |-> {}]}

None == {}
Some(v) == {v}
Val(o) == CHOOSE v \in o : TRUE

-----------------------------------------------------------------------------
(* JavaScript truthiness of an optional string: null, undefined and ""    *)
(* are falsy.  Form fields arrive as strings (est_cropping as "60").       *)
Truthy(o) == o # {} /\ o # {""}

OrNull(o) == IF Truthy(o) THEN o ELSE None

-----------------------------------------------------------------------------
(* Plant registry and catalog: src/Server/errorHandler.js                  *)

\* the filter without its user_id condition
OwnedVisibleAnyUser(up, plantId, userId) ==
    /\ plantId \in DOMAIN up
    /\ up[plantId].is_deleted = 0

\* WHERE up.user_plant_id = ? AND up.user_id = ? AND up.is_deleted = 0
OwnedVisible(up, plantId, userId) ==
    /\ plantId \in DOMAIN up
    /\ up[plantId].user_id = userId
    /\ up[plantId].is_deleted = 0

\* SELECT ... FROM user_plants up JOIN all_plants ap ON up.plant_id = ap.plant_id
JoinedPlant(ap, up, id) ==
    [id |-> id,
     name |-> ap[up[id].plant_id].plant_cultivar,
     species |-> ap[up[id].plant_id].plant_species,
     plantingTime |-> up[id].planting_time,
     estCropping |-> up[id].est_cropping,
     photoUrl |-> up[id].photo_url]

Null == [kind |-> "null"]
Row(r) == [kind |-> "row", row |-> r]
Rows(s) == [kind |-> "rows", rows |-> s]
Bool(b) == [kind |-> "bool", value |-> b]
Thrown == [kind |-> "error"]

\* the list query without its is_deleted condition
UserPlantIdsWithDeleted(ap, up, userId) ==
    {id \in DOMAIN up : /\ up[id].user_id = userId
                        /\ up[id].plant_id \in DOMAIN ap}

\* the ids of the rows the list query selects
UserPlantIds(ap, up, userId) ==
    {id \in DOMAIN up : /\ up[id].user_id = userId
                        /\ up[id].is_deleted = 0
                        /\ up[id].plant_id \in DOMAIN ap}

\* ORDER BY planting_time DESC (rows of equal planting_time in id order)
RECURSIVE OrderByPlantingTimeDesc(_, _)
OrderByPlantingTimeDesc(up, ids) ==
    IF ids = {} THEN <<>>
    ELSE LET first == CHOOSE i \in ids : \A j \in ids :
                          \/ up[i].planting_time > up[j].planting_time
                          \/ up[i].planting_time = up[j].planting_time /\ i <= j
         IN <<first>> \o OrderByPlantingTimeDesc(up, ids \ {first})

getUserPlants(ap, up, userId) ==
    LET ids == OrderByPlantingTimeDesc(up, UserPlantIds(ap, up, userId))
    IN Rows([k \in 1..Len(ids) |-> JoinedPlant(ap, up, ids[k])])

getPlantById(ap, up, plantId, userId) ==
    IF OwnedVisible(up, plantId, userId) /\ up[plantId].plant_id \in DOMAIN ap
    THEN Row(JoinedPlant(ap, up, plantId))
    ELSE Null

\* SELECT plant_id FROM all_plants WHERE plant_cultivar = ? AND plant_species = ?
\* AND is_deleted = 0
ExistingPlants(ap, cultivar, species) ==
    {id \in DOMAIN ap : /\ ap[id].plant_cultivar = cultivar
                        /\ ap[id].plant_species = species
                        /\ ap[id].is_deleted = 0}

Min(S) == CHOOSE x \in S : \A y \in S : x <= y

\* a resolution that inserts without looking for an existing row
findOrCreatePlantTypeNoLookup(ap, newId, cultivar, species) ==
    [ap |-> (newId :> [plant_cultivar |-> cultivar,
                       plant_species |-> species,
                       is_deleted |-> 0]) @@ ap,
     id |-> newId, inserted |-> TRUE]

\* the catalog after findOrCreatePlantType and the id it returns; newId is the
\* next AUTO_INCREMENT value of all_plants
findOrCreatePlantType(ap, newId, cultivar, species) ==
    LET existingPlants == ExistingPlants(ap, cultivar, species)
    IN IF existingPlants # {}
       THEN [ap |-> ap, id |-> Min(existingPlants), inserted |-> FALSE]
       ELSE [ap |-> (newId :> [plant_cultivar |-> cultivar,
                               plant_species |-> species,
                               is_deleted |-> 0]) @@ ap,
             id |-> newId, inserted |-> TRUE]


-----------------------------------------------------------------------------
(* The database a service call works on, and what the call gives back: the *)
(* database after it and the value it returns (or Thrown).                 *)

Db == [all_plants |-> all_plants, user_plants |-> user_plants,
       plant_reminders |-> plant_reminders, plant_health |-> plant_health,
       autoInc |-> autoInc]

Outcome(db, result) == [db |-> db, result |-> result]

\* the steps of addPlant / updatePlant at which a query can fail
AddFailPoints ==
    {"none", "connection", "begin", "lookup", "catalogInsert", "write", "commit", "readback"}
UpdateFailPoints == AddFailPoints \cup {"verify"}

\* POST /api/plants and PUT /api/plants/:id build plantData from the form
RoutePlantData(cultivar, species, form) ==
    [cultivar |-> cultivar, species |-> species, plantingTime |-> form.plantingTime,
     estCropping |-> OrNull(form.est), photoUrl |-> OrNull(form.photo)]

MissingRequired(cultivar, species) == cultivar = "" \/ species = ""

\* INSERT INTO user_plants (user_id, plant_id, planting_time, est_cropping, photo_url)
NewUserPlant(userId, plantTypeId, plantData) ==
    [user_id |-> userId, plant_id |-> plantTypeId,
     planting_time |-> plantData.plantingTime,
     est_cropping |-> OrNull(plantData.estCropping),
     photo_url |-> plantData.photoUrl,
     is_deleted |-> 0]

\* an update that writes photo_url whether or not a photo was uploaded
UpdatedUserPlantWithPhoto(row, plantTypeId, plantData) ==
    [row EXCEPT !.plant_id = plantTypeId,
                !.planting_time = plantData.plantingTime,
                !.est_cropping = OrNull(plantData.estCropping),
                !.photo_url = plantData.photoUrl]

\* the columns updatePlant sets: photo_url only if a new photo was uploaded
UpdatedUserPlant(row, plantTypeId, plantData) ==
    [row EXCEPT !.plant_id = plantTypeId,
                !.planting_time = plantData.plantingTime,
                !.est_cropping = OrNull(plantData.estCropping),
                !.photo_url = IF Truthy(plantData.photoUrl)
                              THEN plantData.photoUrl ELSE @]

\* what the catch block of addPlant / updatePlant leaves of a transaction that
\* failed at failAt: rollback() undoes it unless COMMIT had already succeeded
AfterCatch(failAt, before, written) ==
    IF failAt = "readback" THEN written ELSE before

addPlant(db, plantData, userId, failAt) ==
    LET found == findOrCreatePlantType(db.all_plants, db.autoInc.all_plants,
                                       plantData.cultivar, plantData.species)
        newId == db.autoInc.user_plants
        written ==
            [db EXCEPT
                !.all_plants = found.ap,
                !.user_plants = (newId :> NewUserPlant(userId, found.id, plantData)) @@ @,
                !.autoInc.all_plants = IF found.inserted THEN @ + 1 ELSE @,
                !.autoInc.user_plants = @ + 1]
    IN IF failAt = "none"
       THEN Outcome(written, Row(JoinedPlant(written.all_plants, written.user_plants, newId)))
       ELSE Outcome(AfterCatch(failAt, db, written), Thrown)

\* updatePlant resolving the plant type before it verifies the plant
updatePlantResolvingFirst(db, plantId, plantData, userId, failAt) ==
    LET found == findOrCreatePlantType(db.all_plants, db.autoInc.all_plants,
                                       plantData.cultivar, plantData.species)
        resolved ==
            [db EXCEPT
                !.all_plants = found.ap,
                !.autoInc.all_plants = IF found.inserted THEN @ + 1 ELSE @]
        written ==
            [resolved EXCEPT
                !.user_plants[plantId] = UpdatedUserPlant(@, found.id, plantData)]
    IN IF failAt \in {"connection", "begin", "verify"} THEN Outcome(db, Thrown)
       ELSE IF ~OwnedVisible(db.user_plants, plantId, userId) THEN Outcome(resolved, Null)
       ELSE IF failAt = "none"
       THEN Outcome(written, Row(JoinedPlant(written.all_plants, written.user_plants, plantId)))
       ELSE Outcome(AfterCatch(failAt, db, written), Thrown)

updatePlant(db, plantId, plantData, userId, failAt) ==
    LET found == findOrCreatePlantType(db.all_plants, db.autoInc.all_plants,
                                       plantData.cultivar, plantData.species)
        written ==
            [db EXCEPT
                !.all_plants = found.ap,
                !.user_plants[plantId] = UpdatedUserPlant(@, found.id, plantData),
                !.autoInc.all_plants = IF found.inserted THEN @ + 1 ELSE @]
    IN IF failAt \in {"connection", "begin", "verify"} THEN Outcome(db, Thrown)
       ELSE IF ~OwnedVisible(db.user_plants, plantId, userId) THEN Outcome(db, Null)
       ELSE IF failAt = "none"
       THEN Outcome(written, Row(JoinedPlant(written.all_plants, written.user_plants, plantId)))
       ELSE Outcome(AfterCatch(failAt, db, written), Thrown)

\* the rows UPDATE user_plants ... WHERE user_plant_id = ? AND user_id = ? matches
DeleteMatches(up, plantId, userId) ==
    {id \in DOMAIN up : id = plantId /\ up[id].user_id = userId}

\* a delete that also deactivates the reminders of the plant
deletePlantCascading(db, plantId, userId) ==
    LET matched == DeleteMatches(db.user_plants, plantId, userId)
    IN Outcome([db EXCEPT
                   !.user_plants =
                       [id \in DOMAIN @ |-> IF id \in matched
                                            THEN [@[id] EXCEPT !.is_deleted = 1]
                                            ELSE @[id]],
                   !.plant_reminders =
                       [id \in DOMAIN @ |-> IF @[id].user_plant_id \in matched
                                            THEN [@[id] EXCEPT !.is_active = 0]
                                            ELSE @[id]]],
               Bool(matched # {}))

\* affectedRows counts the rows the UPDATE matched (the driver connects with
\* CLIENT_FOUND_ROWS)
deletePlant(db, plantId, userId) ==
    LET matched == DeleteMatches(db.user_plants, plantId, userId)
    IN Outcome([db EXCEPT !.user_plants =
                   [id \in DOMAIN @ |-> IF id \in matched
                                        THEN [@[id] EXCEPT !.is_deleted = 1]
                                        ELSE @[id]]],
               Bool(matched # {}))

-----------------------------------------------------------------------------
(* Dates as the services compute them with the JavaScript Date object.     *)
(* A time zone is its standard offset from UTC in hours and, optionally,   *)
(* the instant at which daylight saving time begins (offset + 1).          *)

Utc == [std |-> 0, dstAt |-> None]
EastEuropean == [std |-> 2, dstAt |-> Some(24 + 1)]
TimeZones == {Utc, EastEuropean}

\* the instants at which the model lets a request arrive: 00:00 UTC of day 0
\* and 12:00 UTC of every day
Instants == {0} \cup {24 * d + 12 : d \in 0..MaxDay}

\* the offset from UTC in force at instant t
Offset(zone, t) ==
    IF zone.dstAt # None /\ t >= Val(zone.dstAt) THEN zone.std + 1 ELSE zone.std

\* the local wall-clock reading (hours since local 00:00 of day 0) at instant t
LocalTime(zone, t) == t + Offset(zone, t)

\* the instant of a local wall-clock reading; a reading skipped by the
\* transition is read with the offset before it
UtcOfLocal(zone, w) ==
    IF zone.dstAt # None /\ w - (zone.std + 1) >= Val(zone.dstAt)
    THEN w - (zone.std + 1)
    ELSE w - zone.std

\* new Date("YYYY-MM-DD"): a date-only ISO string is 00:00 UTC of that day
NewDateOfIso(day) == 24 * day

\* d.setDate(d.getDate() + n): local calendar fields, local time of day kept
SetDatePlus(zone, t, n) == UtcOfLocal(zone, LocalTime(zone, t) + 24 * n)

\* d.toISOString().split('T')[0]: the UTC calendar day
IsoDay(t) == t \div 24

-----------------------------------------------------------------------------
(* Reminder scheduler: src/unnamed/part_006                                 *)

\* the reminder_type enum, and what the model sends as intervalDays,
\* startDate and notes
ReminderTypes == {"watering", "fertilizing", "harvesting", "other"}
SentTypes == {"watering", "fertilizing"}
ReminderForms ==
    {[intervalDays |-> 1, startDate |-> 0, notes |-> {""}],
     [intervalDays |-> 2, startDate |-> 1, notes |-> {"deep"}]}
\* the reminderData the route hands to saveReminder
ReminderDataOf(type, form) ==
    [type |-> type, intervalDays |-> form.intervalDays,
     startDate |-> form.startDate, notes |-> form.notes]

ReminderIds == 1..MaxReminders

\* reminders as the services return them
PublicReminder(pr, id) ==
    [id |-> id,
     type |-> pr[id].reminder_type,
     startDate |-> pr[id].start_date,
     intervalDays |-> pr[id].interval_days,
     nextReminder |-> pr[id].next_reminder,
     lastCompleted |-> pr[id].last_completed,
     notes |-> pr[id].notes,
     isActive |-> pr[id].is_active = 1]

\* ORDER BY next_reminder ASC (rows of equal next_reminder in id order)
RECURSIVE OrderByNextReminder(_, _)
OrderByNextReminder(pr, ids) ==
    IF ids = {} THEN <<>>
    ELSE LET first == CHOOSE i \in ids : \A j \in ids :
                          \/ pr[i].next_reminder < pr[j].next_reminder
                          \/ pr[i].next_reminder = pr[j].next_reminder /\ i <= j
         IN <<first>> \o OrderByNextReminder(pr, ids \ {first})

\* the query without its is_active condition
AllOfPlant(pr, plantId) == {id \in DOMAIN pr : pr[id].user_plant_id = plantId}

\* WHERE user_plant_id = ? AND is_active = 1
ActiveOfPlant(pr, plantId) ==
    {id \in DOMAIN pr : pr[id].user_plant_id = plantId /\ pr[id].is_active = 1}

getPlantReminders(db, plantId, userId) ==
    IF ~OwnedVisible(db.user_plants, plantId, userId) THEN Null
    ELSE LET ids == OrderByNextReminder(db.plant_reminders,
                                        ActiveOfPlant(db.plant_reminders, plantId))
         IN Rows([k \in 1..Len(ids) |-> PublicReminder(db.plant_reminders, ids[k])])

\* a lookup that leaves out is_active = 1
ExistingRemindersWithInactive(pr, plantId, type) ==
    {id \in DOMAIN pr : pr[id].user_plant_id = plantId /\ pr[id].reminder_type = type}

\* WHERE user_plant_id = ? AND reminder_type = ? AND is_active = 1
ExistingReminders(pr, plantId, type) ==
    {id \in DOMAIN pr : /\ pr[id].user_plant_id = plantId
                        /\ pr[id].reminder_type = type
                        /\ pr[id].is_active = 1}

\* new Date(startDate); setDate(getDate() + parseInt(intervalDays));
\* toISOString().split('T')[0]
NextReminderOfSave(zone, startDate, intervalDays) ==
    IsoDay(SetDatePlus(zone, NewDateOfIso(startDate), intervalDays))

saveReminder(db, zone, plantId, reminderData, userId) ==
    LET nextReminderStr ==
            NextReminderOfSave(zone, reminderData.startDate, reminderData.intervalDays)
        existingReminders ==
            ExistingReminders(db.plant_reminders, plantId, reminderData.type)
        reminderId == IF existingReminders # {} THEN Min(existingReminders)
                      ELSE db.autoInc.plant_reminders
        written ==
            IF existingReminders # {}
            THEN [db EXCEPT !.plant_reminders[reminderId] =
                     [@ EXCEPT !.interval_days = reminderData.intervalDays,
                               !.start_date = reminderData.startDate,
                               !.next_reminder = nextReminderStr,
                               !.notes = OrNull(reminderData.notes)]]
            ELSE [db EXCEPT
                     !.plant_reminders =
                         (reminderId :> [user_plant_id |-> plantId,
                                         reminder_type |-> reminderData.type,
                                         interval_days |-> reminderData.intervalDays,
                                         start_date |-> reminderData.startDate,
                                         next_reminder |-> nextReminderStr,
                                         last_completed |-> None,
                                         notes |-> OrNull(reminderData.notes),
                                         is_active |-> 1]) @@ @,
                     !.autoInc.plant_reminders = @ + 1]
    IN IF ~OwnedVisible(db.user_plants, plantId, userId) THEN Outcome(db, Null)
       ELSE Outcome(written, Row(PublicReminder(written.plant_reminders, reminderId)))

\* the join with up.is_deleted = 0 left out
OwnedReminderWithDeleted(db, reminderId, userId) ==
    /\ reminderId \in DOMAIN db.plant_reminders
    /\ db.plant_reminders[reminderId].user_plant_id \in DOMAIN db.user_plants
    /\ db.user_plants[db.plant_reminders[reminderId].user_plant_id].user_id = userId

\* FROM plant_reminders r JOIN user_plants up ON r.user_plant_id = up.user_plant_id
\* WHERE r.reminder_id = ? AND up.user_id = ? AND up.is_deleted = 0
OwnedReminder(db, reminderId, userId) ==
    /\ reminderId \in DOMAIN db.plant_reminders
    /\ OwnedVisible(db.user_plants, db.plant_reminders[reminderId].user_plant_id, userId)

\* new Date().toISOString().split('T')[0]
Today(t) == IsoDay(t)

\* d = new Date(); d.setDate(d.getDate() + n); d.toISOString().split('T')[0]
DaysFromNow(zone, t, n) == IsoDay(SetDatePlus(zone, t, n))

completeReminder(db, zone, t, reminderId, userId) ==
    LET reminder == db.plant_reminders[reminderId]
        written ==
            [db EXCEPT !.plant_reminders[reminderId] =
                [@ EXCEPT !.last_completed = Some(Today(t)),
                          !.next_reminder = DaysFromNow(zone, t, reminder.interval_days)]]
    IN IF ~OwnedReminder(db, reminderId, userId) THEN Outcome(db, Null)
       ELSE Outcome(written, Row(PublicReminder(written.plant_reminders, reminderId)))

\* a delete that removes the row
deleteReminderRemoving(db, reminderId, userId) ==
    IF ~OwnedReminder(db, reminderId, userId) THEN Outcome(db, Bool(FALSE))
    ELSE Outcome([db EXCEPT !.plant_reminders =
                     [id \in DOMAIN @ \ {reminderId} |-> @[id]]],
                 Bool(TRUE))

\* a delete whose UPDATE names the plant of the reminder, not the reminder
deleteReminderOfPlant(db, reminderId, userId) ==
    IF ~OwnedReminder(db, reminderId, userId) THEN Outcome(db, Bool(FALSE))
    ELSE Outcome([db EXCEPT !.plant_reminders =
                     [id \in DOMAIN @ |->
                         IF @[id].user_plant_id = @[reminderId].user_plant_id
                         THEN [@[id] EXCEPT !.is_active = 0] ELSE @[id]]],
                 Bool(TRUE))

deleteReminder(db, reminderId, userId) ==
    IF ~OwnedReminder(db, reminderId, userId) THEN Outcome(db, Bool(FALSE))
    ELSE Outcome([db EXCEPT !.plant_reminders[reminderId].is_active = 0], Bool(TRUE))

\* next_reminder BETWEEN ? AND ?
InWindow(day, from, to) == from <= day /\ day <= to

\* the rows getUpcomingReminders selects
UpcomingIds(db, zone, t, userId, daysAhead) ==
    {id \in DOMAIN db.plant_reminders :
        LET r == db.plant_reminders[id]
        IN /\ OwnedVisible(db.user_plants, r.user_plant_id, userId)
           /\ db.user_plants[r.user_plant_id].plant_id \in DOMAIN db.all_plants
           /\ r.is_active = 1
           /\ InWindow(r.next_reminder, Today(t), DaysFromNow(zone, t, daysAhead))}

UpcomingRow(db, id) ==
    LET r == db.plant_reminders[id]
        plant == JoinedPlant(db.all_plants, db.user_plants, r.user_plant_id)
    IN [id |-> id, type |-> r.reminder_type, nextReminder |-> r.next_reminder,
        intervalDays |-> r.interval_days, notes |-> r.notes,
        plantId |-> r.user_plant_id, plantName |-> plant.name,
        plantSpecies |-> plant.species]

getUpcomingReminders(db, zone, t, userId, daysAhead) ==
    LET ids == OrderByNextReminder(db.plant_reminders,
                                   UpcomingIds(db, zone, t, userId, daysAhead))
    IN Rows([k \in 1..Len(ids) |-> UpcomingRow(db, ids[k])])

-----------------------------------------------------------------------------
(* Health log service (src/unnamed/part_006).  A read whose ORDER BY       *)
(* leaves rows of equal created_at in no fixed order is the set of the     *)
(* values it can return.                                                   *)

HealthIds == 1..MaxHealth
HealthTexts == {"ok", "wilting"}

\* SELECT health_id as id, remarks, created_at as createdAt
PublicRemark(ph, id) ==
    [id |-> id, remarks |-> ph[id].remarks, createdAt |-> ph[id].created_at]

\* FROM plant_health WHERE user_plant_id = ?
RemarksOfPlant(ph, plantId) == {id \in DOMAIN ph : ph[id].user_plant_id = plantId}

\* ORDER BY created_at DESC: every arrangement of the rows with no row before
\* a newer one
OrdersByCreatedAtDesc(ph, ids) ==
    {order \in [1..Cardinality(ids) -> ids] :
        /\ \A i, j \in DOMAIN order : order[i] = order[j] => i = j
        /\ \A i, j \in DOMAIN order :
              i < j => ph[order[i]].created_at >= ph[order[j]].created_at}

getPlantHealthRemarks(db, plantId, userId) ==
    IF ~OwnedVisible(db.user_plants, plantId, userId) THEN {Null}
    ELSE {Rows([k \in DOMAIN order |-> PublicRemark(db.plant_health, order[k])]) :
             order \in OrdersByCreatedAtDesc(db.plant_health,
                                             RemarksOfPlant(db.plant_health, plantId))}

\* created_at TIMESTAMP DEFAULT CURRENT_TIMESTAMP
addHealthRemark(db, t, plantId, remarks, userId) ==
    LET insertId == db.autoInc.plant_health
        written ==
            [db EXCEPT
                !.plant_health =
                    (insertId :> [user_plant_id |-> plantId, remarks |-> remarks,
                                  created_at |-> t]) @@ @,
                !.autoInc.plant_health = @ + 1]
    IN IF ~OwnedVisible(db.user_plants, plantId, userId) THEN Outcome(db, Null)
       ELSE Outcome(written, Row(PublicRemark(written.plant_health, insertId)))

\* the join with up.is_deleted = 0 left out
OwnedRemarkWithDeleted(db, remarkId, userId) ==
    /\ remarkId \in DOMAIN db.plant_health
    /\ db.plant_health[remarkId].user_plant_id \in DOMAIN db.user_plants
    /\ db.user_plants[db.plant_health[remarkId].user_plant_id].user_id = userId

\* FROM plant_health h JOIN user_plants up ON h.user_plant_id = up.user_plant_id
\* WHERE h.health_id = ? AND up.user_id = ? AND up.is_deleted = 0
OwnedRemark(db, remarkId, userId) ==
    /\ remarkId \in DOMAIN db.plant_health
    /\ OwnedVisible(db.user_plants, db.plant_health[remarkId].user_plant_id, userId)

\* an update whose UPDATE names the plant of the remark, not the remark
updateHealthRemarkOfPlant(db, remarkId, remarks, userId) ==
    LET written ==
            [db EXCEPT !.plant_health =
                [id \in DOMAIN @ |->
                    IF @[id].user_plant_id = @[remarkId].user_plant_id
                    THEN [@[id] EXCEPT !.remarks = remarks] ELSE @[id]]]
    IN IF ~OwnedRemark(db, remarkId, userId) THEN Outcome(db, Null)
       ELSE Outcome(written, Row(PublicRemark(written.plant_health, remarkId)))

updateHealthRemark(db, remarkId, remarks, userId) ==
    LET written == [db EXCEPT !.plant_health[remarkId].remarks = remarks]
    IN IF ~OwnedRemark(db, remarkId, userId) THEN Outcome(db, Null)
       ELSE Outcome(written, Row(PublicRemark(written.plant_health, remarkId)))

deleteHealthRemark(db, remarkId, userId) ==
    LET kept == DOMAIN db.plant_health \ {remarkId}
    IN IF ~OwnedRemark(db, remarkId, userId) THEN Outcome(db, Bool(FALSE))
       ELSE Outcome([db EXCEPT !.plant_health = [id \in kept |-> @[id]]], Bool(TRUE))

\* ORDER BY created_at DESC LIMIT 1; remarks.length > 0 ? remarks[0] : null
getLatestHealthRemark(db, plantId, userId) ==
    LET ids == RemarksOfPlant(db.plant_health, plantId)
    IN IF ~OwnedVisible(db.user_plants, plantId, userId) THEN {Null}
       ELSE IF ids = {} THEN {Null}
       ELSE {Row(PublicRemark(db.plant_health, order[1])) :
                order \in OrdersByCreatedAtDesc(db.plant_health, ids)}

-----------------------------------------------------------------------------
(* Service calls that overlap.  addPlant and updatePlant run their queries  *)
(* on one connection inside a transaction: rows they insert or update are  *)
(* seen by other connections from COMMIT on, and by none after ROLLBACK.    *)
(* saveReminder runs each query by itself on the pool.  A call in progress  *)
(* is a record of what it has read and written so far; pc names the query   *)
(* it runs next.                                                            *)

Idle == [op |-> "idle"]

\* what the other connections see of the catalog once a transaction has
\* inserted the rows `types`, if every statement committed by itself
SeenByOthersAutocommit(ap, types) == types @@ ap

\* what the other connections see of the catalog once a transaction (after
\* connection.beginTransaction()) has inserted the rows `types`
SeenByOthers(ap, types) == ap

\* a commit that leaves out the catalog rows of the transaction
CommittedCatalogWithoutTypes(ap, types) == ap

\* the catalog after connection.commit() of a transaction that inserted `types`
CommittedCatalog(ap, types) == types @@ ap

\* the all_plants rows a resolution inserted: none when it found a row
InsertedTypes(found) ==
    IF found.inserted THEN (found.id :> found.ap[found.id]) ELSE <<>>

\* addPlant up to findOrCreatePlantType: getConnection, beginTransaction, the
\* lookup and, when it finds no row, the INSERT INTO all_plants
AddFind(c, userId, plantData) ==
    LET found == findOrCreatePlantType(all_plants, autoInc.all_plants,
                                       plantData.cultivar, plantData.species)
    IN /\ calls[c] = Idle
       /\ autoInc.user_plants <= MaxPlants
       /\ found.inserted => autoInc.all_plants <= MaxTypes
       /\ calls' = [calls EXCEPT ![c] =
              [op |-> "addPlant", pc |-> "write", userId |-> userId, plantId |-> 0,
               plantData |-> plantData, plantTypeId |-> found.id,
               types |-> InsertedTypes(found), row |-> None]]
       /\ all_plants' = SeenByOthers(all_plants, InsertedTypes(found))
       /\ autoInc' = [autoInc EXCEPT !.all_plants = IF found.inserted THEN @ + 1 ELSE @]
       /\ UNCHANGED <<user_plants, plant_reminders, plant_health, now, tz, rolledBack, users, sessions>>

\* addPlant: INSERT INTO user_plants, inside the transaction
AddWrite(c) ==
    /\ calls[c].op = "addPlant" /\ calls[c].pc = "write"
    /\ calls' = [calls EXCEPT ![c].pc = "commit",
                              ![c].plantId = autoInc.user_plants,
                              ![c].row = Some(NewUserPlant(calls[c].userId,
                                                           calls[c].plantTypeId,
                                                           calls[c].plantData))]
    /\ autoInc' = [autoInc EXCEPT !.user_plants = @ + 1]
    /\ UNCHANGED <<tables, now, tz, rolledBack, users, sessions>>

\* updatePlant up to findOrCreatePlantType: the ownership SELECT and the lookup
\* read one snapshot; a plant not found ends the call with null
UpdateFind(c, userId, plantId, plantData) ==
    LET found == findOrCreatePlantType(all_plants, autoInc.all_plants,
                                       plantData.cultivar, plantData.species)
    IN /\ calls[c] = Idle
       /\ OwnedVisible(user_plants, plantId, userId)
       /\ found.inserted => autoInc.all_plants <= MaxTypes
       /\ calls' = [calls EXCEPT ![c] =
              [op |-> "updatePlant", pc |-> "write", userId |-> userId,
               plantId |-> plantId, plantData |-> plantData,
               plantTypeId |-> found.id, types |-> InsertedTypes(found), row |-> None]]
       /\ all_plants' = SeenByOthers(all_plants, InsertedTypes(found))
       /\ autoInc' = [autoInc EXCEPT !.all_plants = IF found.inserted THEN @ + 1 ELSE @]
       /\ UNCHANGED <<user_plants, plant_reminders, plant_health, now, tz, rolledBack, users, sessions>>

\* the row is locked by another transaction that updated it and has not ended
RowLocked(c, plantId) ==
    \E d \in Calls \ {c} : /\ calls[d].op = "updatePlant"
                           /\ calls[d].pc = "commit"
                           /\ calls[d].plantId = plantId

\* updatePlant: UPDATE user_plants SET ... WHERE user_plant_id = ? AND user_id = ?
UpdateWrite(c) ==
    /\ calls[c].op = "updatePlant" /\ calls[c].pc = "write"
    /\ ~RowLocked(c, calls[c].plantId)
    /\ calls' = [calls EXCEPT ![c].pc = "commit",
                              ![c].row = Some(UpdatedUserPlant(user_plants[calls[c].plantId],
                                                               calls[c].plantTypeId,
                                                               calls[c].plantData))]
    /\ UNCHANGED <<tables, autoInc, now, tz, rolledBack, users, sessions>>

\* connection.commit(): the rows of the transaction become visible together
Commit(c) ==
    /\ calls[c].op \in {"addPlant", "updatePlant"} /\ calls[c].pc = "commit"
    /\ all_plants' = CommittedCatalog(all_plants, calls[c].types)
    /\ user_plants' = (calls[c].plantId :> Val(calls[c].row)) @@ user_plants
    /\ calls' = [calls EXCEPT ![c].pc = "readback"]
    /\ UNCHANGED <<plant_reminders, plant_health, autoInc, now, tz, rolledBack, users, sessions>>

\* a query or the commit fails: catch, connection.rollback(), throw
Rollback(c) ==
    /\ calls[c].op \in {"addPlant", "updatePlant"} /\ calls[c].pc \in {"write", "commit"}
    /\ rolledBack' = rolledBack \cup DOMAIN calls[c].types
    /\ calls' = [calls EXCEPT ![c] = Idle]
    /\ UNCHANGED <<tables, autoInc, now, tz, users, sessions>>

\* the SELECT after the commit, and the return (or the throw, if it fails)
ReadBack(c) ==
    /\ calls[c].op \in {"addPlant", "updatePlant"} /\ calls[c].pc = "readback"
    /\ calls' = [calls EXCEPT ![c] = Idle]
    /\ UNCHANGED <<tables, autoInc, now, tz, rolledBack, users, sessions>>

\* saveReminder up to the lookup: the ownership SELECT and the SELECT of the
\* active reminders of the plant and type; a plant not found ends the call
SaveFind(c, userId, plantId, reminderData) ==
    /\ calls[c] = Idle
    /\ OwnedVisible(user_plants, plantId, userId)
    /\ calls' = [calls EXCEPT ![c] =
           [op |-> "saveReminder", pc |-> "write", userId |-> userId,
            plantId |-> plantId, reminderData |-> reminderData,
            existingReminders |-> ExistingReminders(plant_reminders, plantId,
                                                    reminderData.type)]]
    /\ UNCHANGED <<tables, autoInc, now, tz, rolledBack, users, sessions>>

\* the row saveReminder writes: the first row found, or the one it inserts
SavedId(c) ==
    IF calls[c].existingReminders # {} THEN Min(calls[c].existingReminders)
    ELSE autoInc.plant_reminders

\* saveReminder from if (existingReminders.length > 0): the UPDATE of the
\* first row found or the INSERT of a new one
SaveStatement(c) ==
    LET call == calls[c]
        reminderData == call.reminderData
        nextReminderStr ==
            NextReminderOfSave(tz, reminderData.startDate, reminderData.intervalDays)
        reminderId == SavedId(c)
    IN /\ call.op = "saveReminder" /\ call.pc = "write"
       /\ call.existingReminders = {} => autoInc.plant_reminders <= MaxReminders
       /\ IF call.existingReminders # {}
          THEN /\ plant_reminders' =
                     [plant_reminders EXCEPT ![reminderId] =
                         [@ EXCEPT !.interval_days = reminderData.intervalDays,
                                   !.start_date = reminderData.startDate,
                                   !.next_reminder = nextReminderStr,
                                   !.notes = OrNull(reminderData.notes)]]
               /\ UNCHANGED autoInc
          ELSE /\ plant_reminders' =
                     (reminderId :> [user_plant_id |-> call.plantId,
                                     reminder_type |-> reminderData.type,
                                     interval_days |-> reminderData.intervalDays,
                                     start_date |-> reminderData.startDate,
                                     next_reminder |-> nextReminderStr,
                                     last_completed |-> None,
                                     notes |-> OrNull(reminderData.notes),
                                     is_active |-> 1]) @@ plant_reminders
               /\ autoInc' = [autoInc EXCEPT !.plant_reminders = @ + 1]
       /\ UNCHANGED <<all_plants, user_plants, plant_health, now, tz, rolledBack, users, sessions>>

\* the UPDATE or INSERT of saveReminder and the read-back, with no query of
\* another call between them
SaveWrite(c) ==
    /\ SaveStatement(c)
    /\ calls' = [calls EXCEPT ![c] = Idle]

\* a call that has returned: what it was and the value it gave back
Returned(call, result) == [op |-> call.op, pc |-> "returned", call |-> call, result |-> result]

\* the value is handed to the route and the call is over
Forget(c) ==
    /\ calls[c].op # "idle" /\ calls[c].pc = "returned"
    /\ calls' = [calls EXCEPT ![c] = Idle]
    /\ UNCHANGED <<tables, autoInc, now, tz, rolledBack, users, sessions>>

\* the UPDATE or INSERT of saveReminder; the read-back is a query of its own
SaveStore(c) ==
    /\ SaveStatement(c)
    /\ calls' = [calls EXCEPT ![c] =
           [op |-> "saveReminder", pc |-> "readback", userId |-> calls[c].userId,
            plantId |-> calls[c].plantId, reminderData |-> calls[c].reminderData,
            existingReminders |-> calls[c].existingReminders,
            reminderId |-> SavedId(c)]]

\* saveReminder: SELECT * FROM plant_reminders WHERE reminder_id = ?, and the
\* return of the row formatted
SaveReadBack(c) ==
    /\ calls[c].op = "saveReminder" /\ calls[c].pc = "readback"
    /\ calls' = [calls EXCEPT ![c] =
           Returned(calls[c],
                    IF calls[c].reminderId \in DOMAIN plant_reminders
                    THEN Row(PublicReminder(plant_reminders, calls[c].reminderId))
                    ELSE Null)]
    /\ UNCHANGED <<tables, autoInc, now, tz, rolledBack, users, sessions>>

\* deleteReminder up to if (reminders.length === 0): the SELECT of the
\* reminder joined to its plant; a reminder not found ends the call with false
DeleteFind(c, userId, reminderId) ==
    LET call == [op |-> "deleteReminder", pc |-> "write", userId |-> userId,
                 reminderId |-> reminderId]
    IN /\ calls[c] = Idle
       /\ calls' = [calls EXCEPT ![c] =
              IF OwnedReminder(Db, reminderId, userId) THEN call
              ELSE Returned(call, Bool(FALSE))]
       /\ UNCHANGED <<tables, autoInc, now, tz, rolledBack, users, sessions>>

\* deleteReminder: UPDATE plant_reminders SET is_active = 0 WHERE reminder_id = ?
DeleteWrite(c) ==
    /\ calls[c].op = "deleteReminder" /\ calls[c].pc = "write"
    /\ plant_reminders' = [plant_reminders EXCEPT ![calls[c].reminderId].is_active = 0]
    /\ calls' = [calls EXCEPT ![c] = Returned(calls[c], Bool(TRUE))]
    /\ UNCHANGED <<all_plants, user_plants, plant_health, autoInc, now, tz, rolledBack,
                   users, sessions>>

\* updatePlant whose ownership SELECT finds no row: rollback, return null
UpdateNotFound(c, userId, plantId) ==
    /\ calls[c] = Idle
    /\ ~OwnedVisible(user_plants, plantId, userId)
    /\ calls' = [calls EXCEPT ![c] =
           Returned([op |-> "updatePlant", pc |-> "verify", userId |-> userId,
                     plantId |-> plantId], Null)]
    /\ UNCHANGED <<tables, autoInc, now, tz, rolledBack, users, sessions>>

\* updatePlant: the SELECT after the commit, WHERE up.user_plant_id = ?, and
\* the return of its first row
UpdateReadBack(c) ==
    /\ calls[c].op = "updatePlant" /\ calls[c].pc = "readback"
    /\ calls' = [calls EXCEPT ![c] =
           Returned(calls[c],
                    Row(JoinedPlant(all_plants, user_plants, calls[c].plantId)))]
    /\ UNCHANGED <<tables, autoInc, now, tz, rolledBack, users, sessions>>

-----------------------------------------------------------------------------
(* Route handlers of src/Server/app.js: a request runs one service call   *)
(* and the database becomes the one the call leaves; the response is the   *)
(* status and message the handler derives from the value returned.         *)

Http(status, message) == [status |-> status, message |-> message]

Becomes(db) ==
    /\ all_plants' = db.all_plants
    /\ user_plants' = db.user_plants
    /\ plant_reminders' = db.plant_reminders
    /\ plant_health' = db.plant_health
    /\ autoInc' = db.autoInc
    /\ UNCHANGED <<calls, rolledBack, users, sessions>>

\* if (!plant) 404 / catch 500, for the handlers of the plant, reminder and
\* health routes that test the service's value for null or false
Response(result, status, message, notFound, failed) ==
    IF result = Thrown THEN Http(500, failed)
    ELSE IF result = Null \/ result = Bool(FALSE) THEN Http(404, notFound)
    ELSE Http(status, message)

\* GET /api/plants/:id
GetPlantResponse(result) ==
    Response(result, 200, "", "Plant not found or unauthorized",
             "Error fetching plant details")

\* GET /api/plants/:id/reminders
GetRemindersResponse(result) ==
    Response(result, 200, "", "Plant not found or unauthorized",
             "Error fetching reminders")

\* POST /api/plants
PostPlant(userId, cultivar, species, form, failAt) ==
    LET plantData == RoutePlantData(cultivar, species, form)
        out == addPlant(Db, plantData, userId, failAt)
    IN IF MissingRequired(cultivar, species)
       THEN failAt = "none" /\ UNCHANGED vars
       ELSE /\ autoInc.user_plants <= MaxPlants
            /\ autoInc.all_plants <= MaxTypes
               \/ ExistingPlants(all_plants, cultivar, species) # {}
            /\ failAt = "catalogInsert" => ExistingPlants(all_plants, cultivar, species) = {}
            /\ Becomes(out.db)
            /\ UNCHANGED <<now, tz>>

PostPlantResponse(cultivar, species, result) ==
    IF MissingRequired(cultivar, species) THEN Http(400, "Missing required fields")
    ELSE Response(result, 201, "Plant added successfully", "", "Error adding plant")

\* PUT /api/plants/:id
PutPlant(userId, plantId, cultivar, species, form, failAt) ==
    LET plantData == RoutePlantData(cultivar, species, form)
        out == updatePlant(Db, plantId, plantData, userId, failAt)
    IN IF MissingRequired(cultivar, species)
       THEN failAt = "none" /\ UNCHANGED vars
       ELSE /\ \/ failAt \in {"none", "connection", "begin", "verify"}
               \/ OwnedVisible(user_plants, plantId, userId)
            /\ autoInc.all_plants <= MaxTypes
               \/ ExistingPlants(all_plants, cultivar, species) # {}
            /\ failAt = "catalogInsert" => ExistingPlants(all_plants, cultivar, species) = {}
            /\ Becomes(out.db)
            /\ UNCHANGED <<now, tz>>

PutPlantResponse(cultivar, species, result) ==
    IF MissingRequired(cultivar, species) THEN Http(400, "Missing required fields")
    ELSE Response(result, 200, "Plant updated successfully",
                  "Plant not found or unauthorized", "Error updating plant")

\* DELETE /api/plants/:id
DeletePlant(userId, plantId) ==
    /\ Becomes(deletePlant(Db, plantId, userId).db)
    /\ UNCHANGED <<now, tz>>

DeletePlantResponse(result) ==
    Response(result, 200, "Plant deleted successfully",
             "Plant not found or unauthorized", "Error deleting plant")

\* deletePlant, its UPDATE waiting while a transaction holds the row's lock
DeletePlantQuery(userId, plantId) ==
    /\ \A c \in Calls : ~(/\ calls[c].op = "updatePlant"
                          /\ calls[c].pc = "commit"
                          /\ calls[c].plantId = plantId)
    /\ DeletePlant(userId, plantId)

\* a start date that is not a date
NotADate == -1

\* body('type').isIn([...]), body('intervalDays').isInt({ min: 1 }),
\* body('startDate').isDate(): validationResult(req).isEmpty()
ValidReminderRequest(type, intervalDays, startDate) ==
    type \in ReminderTypes /\ intervalDays >= 1 /\ startDate # NotADate

\* the requests the validators turn down
RejectedReminderRequests ==
    {[type |-> "pruning", form |-> [intervalDays |-> 1, startDate |-> 0, notes |-> {""}]],
     [type |-> "watering", form |-> [intervalDays |-> 0, startDate |-> 0, notes |-> {""}]],
     [type |-> "watering", form |-> [intervalDays |-> 1, startDate |-> NotADate, notes |-> {""}]]}

\* POST /api/plants/:id/reminders (type, intervalDays and startDate validated)
PostReminder(userId, plantId, type, form) ==
    LET reminderData == [type |-> type, intervalDays |-> form.intervalDays,
                         startDate |-> form.startDate, notes |-> form.notes]
        out == saveReminder(Db, tz, plantId, reminderData, userId)
    IN IF ~ValidReminderRequest(type, form.intervalDays, form.startDate)
       THEN UNCHANGED vars
       ELSE /\ \/ autoInc.plant_reminders <= MaxReminders
               \/ ExistingReminders(plant_reminders, plantId, type) # {}
               \/ out.result = Null
            /\ Becomes(out.db)
            /\ UNCHANGED <<now, tz>>

PostReminderResponse(result) ==
    Response(result, 201, "Reminder saved successfully",
             "Plant not found or unauthorized", "Error saving reminder")

\* if (!errors.isEmpty()) return res.status(400)
PostReminderAnswer(type, form, result) ==
    IF ~ValidReminderRequest(type, form.intervalDays, form.startDate)
    THEN Http(400, "")
    ELSE PostReminderResponse(result)

\* PUT /api/reminders/:id/complete
PutReminderComplete(userId, reminderId) ==
    /\ Becomes(completeReminder(Db, tz, now, reminderId, userId).db)
    /\ UNCHANGED <<now, tz>>

PutReminderCompleteResponse(result) ==
    Response(result, 200, "Reminder marked as completed",
             "Reminder not found or unauthorized", "Error completing reminder")

\* DELETE /api/reminders/:id
DeleteReminder(userId, reminderId) ==
    /\ Becomes(deleteReminder(Db, reminderId, userId).db)
    /\ UNCHANGED <<now, tz>>

DeleteReminderResponse(result) ==
    Response(result, 200, "Reminder deleted successfully",
             "Reminder not found or unauthorized", "Error deleting reminder")

\* body('remarks').trim()
Trim(text) == IF text = " " THEN "" ELSE IF text = " wilting" THEN "wilting" ELSE text

\* the remarks a request can carry
SentTexts == {"", "ok", " wilting"}

\* POST /api/plants/:id/health (remarks validated notEmpty, then trimmed)
PostHealth(userId, plantId, text) ==
    LET out == addHealthRemark(Db, now, plantId, Trim(text), userId)
    IN IF text = ""
       THEN UNCHANGED vars
       ELSE /\ autoInc.plant_health <= MaxHealth \/ out.result = Null
            /\ Becomes(out.db)
            /\ UNCHANGED <<now, tz>>

PostHealthResponse(text, result) ==
    IF text = "" THEN Http(400, "")
    ELSE Response(result, 201, "Health remark added successfully",
                  "Plant not found or unauthorized", "Error adding health remark")

\* GET /api/plants/:id/health
GetHealthResponse(result) ==
    Response(result, 200, "", "Plant not found or unauthorized",
             "Error fetching health remarks")

\* GET /api/plants/:id/health/latest
GetLatestHealthResponse(result) ==
    Response(result, 200, "", "No health remarks found for this plant",
             "Error fetching latest health remark")

\* healthService.updateHealthRemark, called on the store
UpdateHealthRemark(userId, remarkId, text) ==
    /\ Becomes(updateHealthRemark(Db, remarkId, text, userId).db)
    /\ UNCHANGED <<now, tz>>

\* healthService.deleteHealthRemark, called on the store
DeleteHealthRemark(userId, remarkId) ==
    /\ Becomes(deleteHealthRemark(Db, remarkId, userId).db)
    /\ UNCHANGED <<now, tz>>

-----------------------------------------------------------------------------
(* Accounts and sessions: app.js. A session is the entry of the session    *)
(* store a client's cookie names; req.session.user is absent ({}) until a  *)
(* signin sets it. Requests are those that passed the CSRF and rate limit  *)
(* middleware.                                                             *)

Sids == {1, 2}
SentUsernames == {"ann", " ann", "bob", "al", ""}
SentPasswords == {"hunter222", "short", ""}

\* the length of a sent string
Length(text) ==
    CASE text = "" -> 0
      [] text = "al" -> 2
      [] text \in {"ann", "bob"} -> 3
      [] text = " ann" -> 4
      [] text = "short" -> 5
      [] OTHER -> 9

\* body('username').trim()
TrimName(text) == IF text = " ann" THEN "ann" ELSE text

\* bcrypt.hash(password, 12) and bcrypt.compare(password, hash)
Hash(password) == <<"bcrypt", password>>
Compare(password, hashed) == hashed = Hash(password)

\* SELECT * FROM users WHERE username = ?
UsersNamed(username) == {id \in DOMAIN users : users[id].username = username}

\* POST /signup
Signup(username, password) ==
    LET name == TrimName(username)
    IN IF Length(name) < 3 \/ Length(password) < 8
       THEN UNCHANGED vars
       ELSE IF UsersNamed(name) # {}
       THEN UNCHANGED vars
       ELSE /\ autoInc.users \in Users
            /\ users' = (autoInc.users :> [user_id |-> autoInc.users, username |-> name,
                                           password |-> Hash(password)]) @@ users
            /\ autoInc' = [autoInc EXCEPT !.users = @ + 1]
            /\ UNCHANGED <<tables, now, tz, calls, rolledBack, sessions>>

SignupResponse(username, password) ==
    LET name == TrimName(username)
    IN IF Length(name) < 3 \/ Length(password) < 8 THEN Http(400, "")
       ELSE IF UsersNamed(name) # {} THEN Http(409, "Username already exists")
       ELSE Http(201, "User created successfully")

\* the credentials with which POST /signin signs a session in: the row of
\* the user, or none
Matching(username, password) ==
    LET name == TrimName(username)
        found == UsersNamed(name)
    IN IF name = "" \/ password = "" THEN {}
       ELSE IF found = {} THEN {}
       ELSE IF ~Compare(password, users[Min(found)].password) THEN {}
       ELSE {users[Min(found)]}

\* POST /signin
Signin(s, username, password) ==
    LET user == Matching(username, password)
    IN IF user = {}
       THEN UNCHANGED vars
       ELSE /\ sessions' = [sessions EXCEPT ![s] = {[id |-> Val(user).user_id,
                                                      username |-> Val(user).username]}]
            /\ UNCHANGED <<tables, autoInc, now, tz, calls, rolledBack, users>>

SigninResponse(username, password) ==
    IF TrimName(username) = "" \/ password = "" THEN Http(400, "")
    ELSE IF Matching(username, password) = {} THEN Http(401, "Invalid credentials")
    ELSE Http(200, "Signed in successfully")

\* requireAuth without its test
requireAuthOpen(session) == {}

\* requireAuth: the response that ends the request, or none (next())
requireAuth(session) ==
    IF session = {} THEN {Http(401, "Unauthorized")} ELSE {}

\* POST /logout; err is the error the store's destroy reports, after which
\* the stored session is either gone or left
Logout(s, err) ==
    IF requireAuth(sessions[s]) # {} \/ sessions[s] = {}
    THEN ~err /\ UNCHANGED vars
    ELSE /\ \/ sessions' = [sessions EXCEPT ![s] = {}]
            \/ err /\ sessions' = sessions
         /\ UNCHANGED <<tables, autoInc, now, tz, calls, rolledBack, users>>

LogoutResponse(s, err) ==
    IF requireAuth(sessions[s]) # {} THEN Val(requireAuth(sessions[s]))
    ELSE IF sessions[s] = {} THEN Http(500, "Something went wrong!")
    ELSE IF err THEN Http(500, "Error logging out")
    ELSE Http(200, "Logged out successfully")

\* the request of session s ends before the route's service call: requireAuth
\* answered, or reading req.session.user.id threw inside the try block
Refused(s) == requireAuth(sessions[s]) # {} \/ sessions[s] = {}

\* req.session.user.id
SessionUserId(s) == Val(sessions[s]).id

\* the routes behind requireAuth that change the store, as session s
ApiPostPlant(s, cultivar, species, form, failAt) ==
    IF Refused(s) THEN failAt = "none" /\ UNCHANGED vars
    ELSE PostPlant(SessionUserId(s), cultivar, species, form, failAt)

ApiDeletePlant(s, plantId) ==
    IF Refused(s) THEN UNCHANGED vars ELSE DeletePlant(SessionUserId(s), plantId)

ApiPostReminder(s, plantId, type, form) ==
    IF Refused(s) THEN UNCHANGED vars
    ELSE PostReminder(SessionUserId(s), plantId, type, form)

ApiDeleteReminder(s, reminderId) ==
    IF Refused(s) THEN UNCHANGED vars ELSE DeleteReminder(SessionUserId(s), reminderId)

ApiPostHealth(s, plantId, text) ==
    IF Refused(s) THEN UNCHANGED vars ELSE PostHealth(SessionUserId(s), plantId, text)

\* parseInt(req.query.days): the number, or NaN ({})
ParseInt(text) ==
    CASE text = {"0"} -> {0}
      [] text = {"1"} -> {1}
      [] text = {"2"} -> {2}
      [] text = {"2.5"} -> {2}
      [] OTHER -> {}

\* the values of ?days= a request can carry; {} is the parameter left out
SentDays == {{}, {"0"}, {"1"}, {"2"}, {"2.5"}, {"soon"}}

DefaultDays == 7

\* parseInt(req.query.days) || 7
DaysOfQuery(text) ==
    LET parsed == ParseInt(text)
    IN IF parsed = {} \/ parsed = {0} THEN DefaultDays ELSE Val(parsed)

\* GET /api/reminders/upcoming
GetUpcoming(userId, days) ==
    getUpcomingReminders(Db, tz, now, userId, DaysOfQuery(days))

GetUpcomingResponse(result) ==
    Response(result, 200, "", "", "Error fetching upcoming reminders")

-----------------------------------------------------------------------------
Init ==
    /\ all_plants = <<>>
    /\ user_plants = <<>>
    /\ plant_reminders = <<>>
    /\ plant_health = <<>>
    /\ autoInc = [all_plants |-> 1, user_plants |-> 1, plant_reminders |-> 1, plant_health |-> 1,
                  users |-> 1]
    /\ now = 0
    /\ tz \in TimeZones
    /\ calls = [c \in Calls |-> Idle]
    /\ rolledBack = {}
    /\ users = <<>>
    /\ sessions = [s \in Sids |-> {}]

\* a server process running in UTC
InitUtc == Init /\ tz = Utc

\* the server clock advances between requests
Tick == /\ \E t \in Instants : t > now /\ now' = t
        /\ UNCHANGED <<tables, autoInc, tz, calls, rolledBack, users, sessions>>

\* the requests the model sends: every form without a failure, and one form
\* for each step at which the transaction can fail
PlantRequests ==
    [cultivar : Cultivars, species : SpeciesSet, form : PlantForms, failAt : {"none"}]
    \cup [cultivar : {"Roma"}, species : SpeciesSet, form : {PlainForm},
          failAt : UpdateFailPoints]
    \cup [cultivar : {""}, species : SpeciesSet, form : {PlainForm}, failAt : {"none"}]

PlantNext ==
    \/ \E u \in Users, r \in PlantRequests :
          /\ r.failAt \in AddFailPoints
          /\ PostPlant(u, r.cultivar, r.species, r.form, r.failAt)
    \/ \E u \in Users, p \in PlantIds, r \in PlantRequests :
          PutPlant(u, p, r.cultivar, r.species, r.form, r.failAt)
    \/ \E u \in Users, p \in PlantIds : DeletePlant(u, p)

Spec == InitUtc /\ [][PlantNext]_vars

\* the reminder scheduler, over plants added with the plain form, the n-th
\* of them by user n
ReminderNext ==
    \/ \E u \in Users : /\ u = autoInc.user_plants
                         /\ PostPlant(u, "Roma", "Tomato", PlainForm, "none")
    \/ \E u \in Users, p \in PlantIds : DeletePlant(u, p)
    \/ \E u \in Users, p \in PlantIds, type \in SentTypes, form \in ReminderForms :
          PostReminder(u, p, type, form)
    \/ \E u \in Users, p \in PlantIds, req \in RejectedReminderRequests :
          PostReminder(u, p, req.type, req.form)
    \/ \E u \in Users, r \in ReminderIds : PutReminderComplete(u, r)
    \/ \E u \in Users, r \in ReminderIds : DeleteReminder(u, r)
    \/ Tick

SpecReminders == Init /\ [][ReminderNext]_vars

\* the health log, over plants added as in the reminder scheduler's runs
HealthNext ==
    \/ \E u \in Users : /\ u = autoInc.user_plants
                         /\ PostPlant(u, "Roma", "Tomato", PlainForm, "none")
    \/ \E u \in Users, p \in PlantIds : DeletePlant(u, p)
    \/ \E u \in Users, p \in PlantIds, text \in SentTexts : PostHealth(u, p, text)
    \/ \E u \in Users, h \in HealthIds, text \in HealthTexts : UpdateHealthRemark(u, h, text)
    \/ \E u \in Users, h \in HealthIds : DeleteHealthRemark(u, h)
    \/ Tick

SpecHealth == InitUtc /\ [][HealthNext]_vars

\* the three services over one store: plants added and updated with the plain
\* form, watering reminders of one form, remarks of one text, all requests
\* made within the first hour
StoreNext ==
    \/ \E u \in Users : /\ u = autoInc.user_plants
                         /\ PostPlant(u, "Roma", "Tomato", PlainForm, "none")
    \/ \E u \in Users, p \in PlantIds : PutPlant(u, p, "Cherry", "Tomato", PlainForm, "none")
    \/ \E u \in Users, p \in PlantIds : DeletePlant(u, p)
    \/ \E u \in Users, p \in PlantIds, form \in ReminderForms :
          form.intervalDays = 1 /\ PostReminder(u, p, "watering", form)
    \/ \E u \in Users, r \in ReminderIds : PutReminderComplete(u, r)
    \/ \E u \in Users, r \in ReminderIds : DeleteReminder(u, r)
    \/ \E u \in Users, p \in PlantIds : PostHealth(u, p, "ok")
    \/ \E u \in Users, h \in HealthIds : UpdateHealthRemark(u, h, "wilting")
    \/ \E u \in Users, h \in HealthIds : DeleteHealthRemark(u, h)

SpecStore == InitUtc /\ [][StoreNext]_vars

\* the answers of the routes under /api to the requests of one user
RouteAnswers(userId) ==
    {Response(getUserPlants(all_plants, user_plants, userId), 200, "", "",
              "Error fetching plants")}
    \cup {GetPlantResponse(getPlantById(all_plants, user_plants, p, userId)) : p \in PlantIds}
    \cup {PostPlantResponse(r.cultivar, r.species,
                            addPlant(Db, RoutePlantData(r.cultivar, r.species, r.form),
                                     userId, r.failAt).result) :
             r \in {q \in PlantRequests : q.failAt \in AddFailPoints}}
    \cup {PutPlantResponse(r.cultivar, r.species,
                           updatePlant(Db, p, RoutePlantData(r.cultivar, r.species, r.form),
                                       userId, "none").result) :
             p \in PlantIds, r \in {q \in PlantRequests : q.failAt = "none"}}
    \cup {DeletePlantResponse(deletePlant(Db, p, userId).result) : p \in PlantIds}
    \cup {GetRemindersResponse(getPlantReminders(Db, p, userId)) : p \in PlantIds}
    \cup {PostReminderAnswer(type, form,
                             saveReminder(Db, tz, p, ReminderDataOf(type, form), userId).result) :
             p \in PlantIds, type \in ReminderTypes, form \in ReminderForms}
    \cup {PutReminderCompleteResponse(completeReminder(Db, tz, now, r, userId).result) :
             r \in ReminderIds}
    \cup {DeleteReminderResponse(deleteReminder(Db, r, userId).result) : r \in ReminderIds}
    \cup {GetUpcomingResponse(GetUpcoming(userId, days)) : days \in SentDays}
    \cup UNION {{GetHealthResponse(result) : result \in getPlantHealthRemarks(Db, p, userId)} :
                  p \in PlantIds}
    \cup {PostHealthResponse(text, addHealthRemark(Db, now, p, Trim(text), userId).result) :
             p \in PlantIds, text \in SentTexts}
    \cup UNION {{GetLatestHealthResponse(result) : result \in getLatestHealthRemark(Db, p, userId)} :
                  p \in PlantIds}

\* the answers a session can get from the routes under /api
ApiAnswers(s) ==
    IF requireAuth(sessions[s]) # {} THEN requireAuth(sessions[s])
    ELSE IF sessions[s] = {} THEN {Http(500, "Something went wrong!")}
    ELSE RouteAnswers(SessionUserId(s))

\* accounts, sessions and the routes behind requireAuth: plants added with
\* the plain form, watering reminders of one form, remarks of one text
SessionNext ==
    \/ \E username \in SentUsernames, password \in SentPasswords : Signup(username, password)
    \/ \E s \in Sids, username \in SentUsernames, password \in SentPasswords :
          Signin(s, username, password)
    \/ \E s \in Sids, err \in BOOLEAN : Logout(s, err)
    \/ \E s \in Sids : ApiPostPlant(s, "Roma", "Tomato", PlainForm, "none")
    \/ \E s \in Sids, p \in PlantIds : ApiDeletePlant(s, p)
    \/ \E s \in Sids, p \in PlantIds, form \in ReminderForms :
          form.intervalDays = 1 /\ ApiPostReminder(s, p, "watering", form)
    \/ \E s \in Sids, r \in ReminderIds : ApiDeleteReminder(s, r)
    \/ \E s \in Sids, p \in PlantIds : ApiPostHealth(s, p, "ok")

SpecSession == InitUtc /\ [][SessionNext]_vars

\* the requests that run as overlapping calls
CallPlantData == {RoutePlantData(cultivar, "Tomato", PlainForm) : cultivar \in Cultivars}
CallReminderData == {ReminderDataOf("watering", form) : form \in ReminderForms}

\* overlapping calls of addPlant, updatePlant and saveReminder, each query a
\* step of its own
ConcurrentNext ==
    \/ \E c \in Calls, plantData \in CallPlantData : AddFind(c, 1, plantData)
    \/ \E c \in Calls : AddWrite(c)
    \/ \E c \in Calls, p \in PlantIds, plantData \in CallPlantData :
          UpdateFind(c, 1, p, plantData)
    \/ \E c \in Calls : UpdateWrite(c)
    \/ \E c \in Calls : Commit(c)
    \/ \E c \in Calls : Rollback(c)
    \/ \E c \in Calls : ReadBack(c)
    \/ \E c \in Calls, p \in PlantIds, reminderData \in CallReminderData :
          SaveFind(c, 1, p, reminderData)
    \/ \E c \in Calls : SaveWrite(c)

SpecConcurrent == InitUtc /\ [][ConcurrentNext]_vars

\* calls of saveReminder that overlap with calls of deleteReminder, on
\* plants added with the plain form; each query is a step of its own and a
\* call ends by returning its value
SaveDeleteNext ==
    \/ PostPlant(1, "Roma", "Tomato", PlainForm, "none")
    \/ \E c \in Calls, p \in PlantIds, reminderData \in CallReminderData :
          SaveFind(c, 1, p, reminderData)
    \/ \E c \in Calls : SaveStore(c)
    \/ \E c \in Calls : SaveReadBack(c)
    \/ \E c \in Calls, r \in ReminderIds : DeleteFind(c, 1, r)
    \/ \E c \in Calls : DeleteWrite(c)
    \/ \E c \in Calls : Forget(c)

SpecSaveDelete == InitUtc /\ [][SaveDeleteNext]_vars

\* calls of updatePlant that overlap with each other and with deletePlant
UpdateDeleteNext ==
    \/ PostPlant(1, "Roma", "Tomato", PlainForm, "none")
    \/ \E c \in Calls, p \in PlantIds, plantData \in CallPlantData :
          UpdateFind(c, 1, p, plantData)
    \/ \E c \in Calls, p \in PlantIds : UpdateNotFound(c, 1, p)
    \/ \E c \in Calls : UpdateWrite(c)
    \/ \E c \in Calls : Commit(c)
    \/ \E c \in Calls : UpdateReadBack(c)
    \/ \E p \in PlantIds : DeletePlantQuery(1, p)
    \/ \E c \in Calls : Forget(c)

SpecUpdateDelete == InitUtc /\ [][UpdateDeleteNext]_vars

-----------------------------------------------------------------------------
(* Claims about the plant registry and the catalog                          *)

\* the requests that pass the route's required-field check and meet no failure
GoodRequests == {r \in PlantRequests : r.cultivar # "" /\ r.failAt = "none"}

DataOf(r) == RoutePlantData(r.cultivar, r.species, r.form)

ListedIds(ap, up, userId) ==
    LET rows == getUserPlants(ap, up, userId).rows
    IN {rows[k].id : k \in 1..Len(rows)}

\* C1: for distinct users A and B and a UserPlant p of A, get, update and
\* softDelete of p called as B answer null / null / false and leave the
\* user_plants rows as they were, at whatever step update might fail.
C1_OwnershipIsolation ==
    \A a \in Users, b \in Users, p \in DOMAIN user_plants :
        (a # b /\ user_plants[p].user_id = a) =>
            /\ getPlantById(all_plants, user_plants, p, b) = Null
            /\ \A r \in PlantRequests :
                  r.cultivar # "" =>
                     LET out == updatePlant(Db, p, DataOf(r), b, r.failAt)
                     IN /\ r.failAt = "none" => out.result = Null
                        /\ out.db.user_plants = user_plants
            /\ deletePlant(Db, p, b) = Outcome(Db, Bool(FALSE))

\* two plants, one of each user, neither deleted
C1_Witness ==
    /\ DOMAIN user_plants = PlantIds
    /\ \A p \in PlantIds : user_plants[p].is_deleted = 0
    /\ \E p, q \in PlantIds : user_plants[p].user_id # user_plants[q].user_id

\* C2 (the call): a softDelete that returns true leaves the row stored with
\* is_deleted = 1, absent from list(userId) and NotFound for get(userId, p).
SoftDeleteHides ==
    \A u \in Users, p \in PlantIds :
        LET out == deletePlant(Db, p, u)
        IN out.result = Bool(TRUE) =>
              /\ p \in DOMAIN out.db.user_plants
              /\ out.db.user_plants[p].is_deleted = 1
              /\ p \notin ListedIds(out.db.all_plants, out.db.user_plants, u)
              /\ getPlantById(out.db.all_plants, out.db.user_plants, p, u) = Null

\* C2 (every later state): a row with is_deleted = 1 is in no user's list and
\* NotFound for every user ...
DeletedInvisible ==
    \A u \in Users, p \in DOMAIN user_plants :
        user_plants[p].is_deleted = 1 =>
            /\ p \notin ListedIds(all_plants, user_plants, u)
            /\ getPlantById(all_plants, user_plants, p, u) = Null

\* ... and no step removes the row or clears the flag
DeletedStays ==
    \A p \in DOMAIN user_plants :
        user_plants[p].is_deleted = 1 =>
            p \in DOMAIN user_plants' /\ user_plants'[p].is_deleted = 1

\* C2: soft-delete invisibility, at the call and in every later state.
C2_SoftDeleteInvisible ==
    [](SoftDeleteHides /\ DeletedInvisible) /\ [][DeletedStays]_vars

\* a soft-deleted plant beside one that is not
C2_Witness ==
    /\ \E p \in DOMAIN user_plants : user_plants[p].is_deleted = 1
    /\ \E p \in DOMAIN user_plants : user_plants[p].is_deleted = 0

\* C7: update on an owned plant writes plant_id, planting_time and est_cropping
\* from the request; it keeps the stored photo_url when the request carries no
\* photo (absent or empty) and stores the request's photo otherwise.
C7_PartialPhotoUpdate ==
    \A p \in DOMAIN user_plants, r \in GoodRequests :
        user_plants[p].is_deleted = 0 =>
            LET out == updatePlant(Db, p, DataOf(r), user_plants[p].user_id, "none")
                row == out.db.user_plants[p]
            IN /\ out.result.kind = "row"
               /\ row.photo_url = IF r.form.photo \in {{}, {""}}
                                  THEN user_plants[p].photo_url ELSE r.form.photo
               /\ row.planting_time = r.form.plantingTime
               /\ row.est_cropping = (IF r.form.est = {""} THEN {} ELSE r.form.est)
               /\ row.plant_id \in DOMAIN out.db.all_plants
               /\ out.db.all_plants[row.plant_id].plant_cultivar = r.cultivar
               /\ out.db.all_plants[row.plant_id].plant_species = r.species

\* a row that kept its photo through an update that carried none
C7_Witness ==
    /\ \E p \in DOMAIN user_plants :
          /\ user_plants[p].photo_url = {"/uploads/a.jpg"}
          /\ user_plants[p].est_cropping # {"60"}

\* C8 (catalog): no two active all_plants rows share (cultivar, species)
UniqueCatalog(ap) ==
    \A i, j \in DOMAIN ap :
        (/\ ap[i].is_deleted = 0 /\ ap[j].is_deleted = 0
         /\ ap[i].plant_cultivar = ap[j].plant_cultivar
         /\ ap[i].plant_species = ap[j].plant_species) => i = j

\* C8 (add): add points the new row at an active catalog row of its (cultivar,
\* species), keeps the catalog free of duplicates, and a second add of the same
\* pair, by any user, gets the same plant type id
AddReusesType ==
    \A u1 \in Users, u2 \in Users, r1 \in GoodRequests, r2 \in GoodRequests :
        LET out1 == addPlant(Db, DataOf(r1), u1, "none")
            row1 == out1.db.user_plants[out1.result.row.id]
            out2 == addPlant(out1.db, DataOf(r2), u2, "none")
            row2 == out2.db.user_plants[out2.result.row.id]
        IN /\ UniqueCatalog(out1.db.all_plants)
           /\ row1.plant_id \in ExistingPlants(out1.db.all_plants, r1.cultivar, r1.species)
           /\ (r1.cultivar = r2.cultivar /\ r1.species = r2.species)
                 => row1.plant_id = row2.plant_id

\* C8 (later steps): a catalog row is never removed, changed or deactivated, so
\* the id a pair resolved to is the id it resolves to later
CatalogStable ==
    \A i \in DOMAIN all_plants : i \in DOMAIN all_plants' /\ all_plants'[i] = all_plants[i]

\* C8: catalog reuse under sequential add and update calls.
C8_CatalogReuse ==
    [](UniqueCatalog(all_plants) /\ AddReusesType) /\ [][CatalogStable]_vars

\* two plants of different users on one catalog row, beside another row
C8_Witness ==
    /\ \E p, q \in DOMAIN user_plants :
          /\ user_plants[p].user_id # user_plants[q].user_id
          /\ user_plants[p].plant_id = user_plants[q].plant_id
    /\ Cardinality(DOMAIN all_plants) = 2

\* C9: an add that ends by raising an error leaves the stored rows as they
\* were before the call, at whichever step it failed.
C9_AddAllOrNothing ==
    \A u \in Users, r \in PlantRequests :
        (r.cultivar # "" /\ r.failAt \in AddFailPoints) =>
            LET out == addPlant(Db, DataOf(r), u, r.failAt)
            IN out.result = Thrown =>
                  /\ out.db.all_plants = all_plants
                  /\ out.db.user_plants = user_plants

-----------------------------------------------------------------------------
(* Claims about the reminder scheduler                                      *)

AtMostOneActive(pr) ==
    \A i, j \in DOMAIN pr :
        (/\ pr[i].is_active = 1 /\ pr[j].is_active = 1
         /\ pr[i].user_plant_id = pr[j].user_plant_id
         /\ pr[i].reminder_type = pr[j].reminder_type) => i = j

ActiveOfType(pr, plantId, type) ==
    {id \in DOMAIN pr : /\ pr[id].user_plant_id = plantId
                          /\ pr[id].reminder_type = type
                          /\ pr[id].is_active = 1}

\* C3: with save, complete and delete called one at a time, every (plant, type)
\* has at most one active reminder, and a save that returns a reminder leaves
\* exactly one active reminder of its type on its plant.
C3_AtMostOneActive ==
    /\ AtMostOneActive(plant_reminders)
    /\ \A u \in Users, p \in PlantIds, type \in SentTypes, form \in ReminderForms :
          LET out == saveReminder(Db, tz, p, ReminderDataOf(type, form), u)
          IN out.result # Null =>
                Cardinality(ActiveOfType(out.db.plant_reminders, p, type)) = 1

\* a reminder saved again after the earlier one of its plant and type was deleted
C3_Witness ==
    \E i, j \in DOMAIN plant_reminders :
        /\ plant_reminders[i].user_plant_id = plant_reminders[j].user_plant_id
        /\ plant_reminders[i].reminder_type = plant_reminders[j].reminder_type
        /\ plant_reminders[i].is_active = 0
        /\ plant_reminders[j].is_active = 1

\* C4: save on an owned, visible plant returns a reminder with the interval,
\* start date and notes sent and nextReminder = startDate + intervalDays; an
\* active reminder of the type is overwritten in place and keeps its id.
C4_SaveResult ==
    \A p \in DOMAIN user_plants, type \in SentTypes, form \in ReminderForms :
        user_plants[p].is_deleted = 0 =>
            LET out == saveReminder(Db, tz, p, ReminderDataOf(type, form),
                                    user_plants[p].user_id)
                before == ExistingReminders(plant_reminders, p, type)
            IN /\ out.result.kind = "row"
               /\ out.result.row.type = type
               /\ out.result.row.intervalDays = form.intervalDays
               /\ out.result.row.startDate = form.startDate
               /\ out.result.row.notes = (IF form.notes = {""} THEN {} ELSE form.notes)
               /\ out.result.row.nextReminder = form.startDate + form.intervalDays
               /\ out.result.row.isActive
               /\ before # {} =>
                     /\ out.result.row.id \in before
                     /\ DOMAIN out.db.plant_reminders = DOMAIN plant_reminders

\* C5: complete on an owned reminder sets lastCompleted to today and
\* nextReminder to today + intervalDays, whatever nextReminder was, and leaves
\* the other columns as they were.
C5_CompleteFromToday ==
    \A r \in DOMAIN plant_reminders :
        LET plantId == plant_reminders[r].user_plant_id
        IN user_plants[plantId].is_deleted = 0 =>
              LET out == completeReminder(Db, tz, now, r, user_plants[plantId].user_id)
                  old == plant_reminders[r]
                  new == out.db.plant_reminders[r]
              IN /\ out.result.kind = "row"
                 /\ new.last_completed = {IsoDay(now)}
                 /\ new.next_reminder = IsoDay(now) + old.interval_days
                 /\ new = [old EXCEPT !.last_completed = new.last_completed,
                                      !.next_reminder = new.next_reminder]

\* the window lengths the model asks for
WindowDays == {0, 1, 2}

\* C6: listUpcoming(userId, windowDays) returns exactly the active reminders of
\* the user's visible plants with today <= nextReminder <= today + windowDays.
C6_UpcomingWindow ==
    \A u \in Users, w \in WindowDays :
        LET rows == getUpcomingReminders(Db, tz, now, u, w).rows
        IN {rows[k].id : k \in 1..Len(rows)} =
              {r \in DOMAIN plant_reminders :
                  /\ plant_reminders[r].is_active = 1
                  /\ user_plants[plant_reminders[r].user_plant_id].user_id = u
                  /\ user_plants[plant_reminders[r].user_plant_id].is_deleted = 0
                  /\ IsoDay(now) <= plant_reminders[r].next_reminder
                  /\ plant_reminders[r].next_reminder <= IsoDay(now) + w}

-----------------------------------------------------------------------------
(* Claims about the health log                                              *)

\* C10: latest(userId, plantId) tells a plant that is missing, not owned or
\* soft-deleted from an owned plant without remarks: the two values returned
\* differ, and the route answers them with different 404 messages.
C10_LatestThreeWay ==
    \A u \in Users, p, q \in PlantIds :
        (/\ ~OwnedVisible(user_plants, p, u)
         /\ OwnedVisible(user_plants, q, u)
         /\ RemarksOfPlant(plant_health, q) = {}) =>
            \A a \in getLatestHealthRemark(Db, p, u), b \in getLatestHealthRemark(Db, q, u) :
                /\ a # b
                /\ GetLatestHealthResponse(a).status = 404
                /\ GetLatestHealthResponse(b).status = 404
                /\ GetLatestHealthResponse(a).message # GetLatestHealthResponse(b).message

-----------------------------------------------------------------------------
(* Claims about what a caller can learn and change through ids not its own  *)

\* the answers of the routes that take a plant id, to user u asking for plant p
PlantScopedResponses(u, p) ==
    [get |-> GetPlantResponse(getPlantById(all_plants, user_plants, p, u)),
     update |-> {PutPlantResponse(r.cultivar, r.species,
                                  updatePlant(Db, p, DataOf(r), u, "none").result) :
                    r \in GoodRequests},
     delete |-> DeletePlantResponse(deletePlant(Db, p, u).result),
     listReminders |-> GetRemindersResponse(getPlantReminders(Db, p, u)),
     saveReminder |-> {PostReminderResponse(
                           saveReminder(Db, tz, p, ReminderDataOf(type, form), u).result) :
                          type \in SentTypes, form \in ReminderForms},
     listHealth |-> {GetHealthResponse(res) : res \in getPlantHealthRemarks(Db, p, u)},
     addHealth |-> {PostHealthResponse(text, addHealthRemark(Db, now, p, Trim(text), u).result) :
                       text \in SentTexts}]

\* the answers of the routes that take a reminder id
ReminderScopedResponses(u, r) ==
    [complete |-> PutReminderCompleteResponse(completeReminder(Db, tz, now, r, u).result),
     delete |-> DeleteReminderResponse(deleteReminder(Db, r, u).result)]

\* C11: a request for an id that does not exist and a request for an id that
\* exists but is another user's, or soft-deleted, get the same answer, for
\* every route that takes a plant id or a reminder id.
C11_AntiEnumeration ==
    /\ \A u \in Users, p, q \in PlantIds :
          (/\ p \notin DOMAIN user_plants
           /\ q \in DOMAIN user_plants
           /\ ~OwnedVisible(user_plants, q, u)) =>
              PlantScopedResponses(u, p) = PlantScopedResponses(u, q)
    /\ \A u \in Users, r, s \in ReminderIds :
          (/\ r \notin DOMAIN plant_reminders
           /\ s \in DOMAIN plant_reminders
           /\ ~OwnedReminder(Db, s, u)) =>
              ReminderScopedResponses(u, r) = ReminderScopedResponses(u, s)

\* C12: save and list for a plant the caller does not own or that is
\* soft-deleted, and complete and delete of a reminder of such a plant, return
\* null (false for delete) and leave the table of reminders as it was.
C12_ReminderAuthorization ==
    /\ \A u \in Users, p \in PlantIds :
          ~OwnedVisible(user_plants, p, u) =>
              /\ getPlantReminders(Db, p, u) = Null
              /\ \A type \in SentTypes, form \in ReminderForms :
                    LET out == saveReminder(Db, tz, p, ReminderDataOf(type, form), u)
                    IN out.result = Null /\ out.db.plant_reminders = plant_reminders
    /\ \A u \in Users, r \in DOMAIN plant_reminders :
          ~OwnedVisible(user_plants, plant_reminders[r].user_plant_id, u) =>
              /\ completeReminder(Db, tz, now, r, u).result = Null
              /\ completeReminder(Db, tz, now, r, u).db.plant_reminders = plant_reminders
              /\ deleteReminder(Db, r, u).result = Bool(FALSE)
              /\ deleteReminder(Db, r, u).db.plant_reminders = plant_reminders

\* an active reminder of a soft-deleted plant, and an active one of a visible plant
C12_Witness ==
    \E r, s \in DOMAIN plant_reminders :
        /\ plant_reminders[r].is_active = 1
        /\ user_plants[plant_reminders[r].user_plant_id].is_deleted = 1
        /\ plant_reminders[s].is_active = 1
        /\ user_plants[plant_reminders[s].user_plant_id].is_deleted = 0

\* the ids of the rows a list returns
IdsOf(result) == {result.rows[k].id : k \in 1..Len(result.rows)}

\* C13: delete of an owned reminder returns true, sets is_active = 0 on that
\* row and changes no other column, row or table; the reminder is then in
\* neither the plant's list nor the upcoming list.
C13_DeleteReminderFrame ==
    \A u \in Users, r \in DOMAIN plant_reminders :
        OwnedReminder(Db, r, u) =>
            LET out == deleteReminder(Db, r, u)
            IN /\ out.result = Bool(TRUE)
               /\ out.db = [Db EXCEPT !.plant_reminders[r].is_active = 0]
               /\ r \notin IdsOf(getPlantReminders(out.db, plant_reminders[r].user_plant_id, u))
               /\ \A w \in WindowDays :
                     r \notin IdsOf(getUpcomingReminders(out.db, tz, now, u, w))

\* a deleted reminder that keeps the dates of its last completion, beside an
\* active reminder of the same plant
C13_Witness ==
    \E r, s \in DOMAIN plant_reminders :
        /\ plant_reminders[r].is_active = 0
        /\ plant_reminders[r].last_completed # {}
        /\ plant_reminders[s].is_active = 1
        /\ plant_reminders[s].user_plant_id = plant_reminders[r].user_plant_id

\* C14: softDelete of a plant that is already soft-deleted returns false, as
\* for a plant that does not exist or is another user's, and the route answers
\* 404.
C14_SecondDeleteNotFound ==
    \A u \in Users, p \in PlantIds :
        ~OwnedVisible(user_plants, p, u) =>
            /\ deletePlant(Db, p, u).result = Bool(FALSE)
            /\ DeletePlantResponse(deletePlant(Db, p, u).result).status = 404

-----------------------------------------------------------------------------
(* Claims about soft-deleted plants and the rows that hang on them          *)

\* C15: softDelete changes the is_deleted flag of the one plant and nothing
\* else: the plant's reminders and health remarks and the catalog stay as
\* they were, and a call that matches no plant changes nothing.
C15_SoftDeleteNoCascade ==
    \A u \in Users, p \in PlantIds :
        LET out == deletePlant(Db, p, u)
        IN IF out.result = Bool(TRUE)
           THEN out.db = [Db EXCEPT !.user_plants[p].is_deleted = 1]
           ELSE out.db = Db

\* a visible plant with an active reminder and a health remark
C15_Witness ==
    \E p \in DOMAIN user_plants :
        /\ user_plants[p].is_deleted = 0
        /\ \E r \in DOMAIN plant_reminders :
              plant_reminders[r].user_plant_id = p /\ plant_reminders[r].is_active = 1
        /\ \E h \in DOMAIN plant_health : plant_health[h].user_plant_id = p

\* no step clears the flag of a soft-deleted plant or removes its row
StaysDeleted ==
    \A p \in DOMAIN user_plants :
        user_plants[p].is_deleted = 1 =>
            p \in DOMAIN user_plants' /\ user_plants'[p].is_deleted = 1

\* what hangs on a soft-deleted plant is out of every user's reach
DeletedUnreachable ==
    \A u \in Users, p \in DOMAIN user_plants :
        user_plants[p].is_deleted = 1 =>
            /\ getPlantReminders(Db, p, u) = Null
            /\ getPlantHealthRemarks(Db, p, u) = {Null}
            /\ getLatestHealthRemark(Db, p, u) = {Null}
            /\ \A r \in DOMAIN plant_reminders :
                  plant_reminders[r].user_plant_id = p =>
                      /\ \A w \in WindowDays :
                            r \notin IdsOf(getUpcomingReminders(Db, tz, now, u, w))
                      /\ completeReminder(Db, tz, now, r, u).result = Null
                      /\ deleteReminder(Db, r, u).result = Bool(FALSE)
            /\ \A h \in DOMAIN plant_health :
                  plant_health[h].user_plant_id = p =>
                      /\ \A text \in HealthTexts :
                            updateHealthRemark(Db, h, text, u).result = Null
                      /\ deleteHealthRemark(Db, h, u).result = Bool(FALSE)

\* C16: a soft-deleted plant stays soft-deleted in every later state, and from
\* then on its reminders and health remarks are in no list and complete,
\* delete and update of them return null or false.
C16_SoftDeletePermanent == []DeletedUnreachable /\ [][StaysDeleted]_vars

\* a soft-deleted plant with an active reminder and a health remark
C16_Witness ==
    \E p \in DOMAIN user_plants :
        /\ user_plants[p].is_deleted = 1
        /\ \E r \in DOMAIN plant_reminders :
              plant_reminders[r].user_plant_id = p /\ plant_reminders[r].is_active = 1
        /\ \E h \in DOMAIN plant_health : plant_health[h].user_plant_id = p

\* the rows of the plant, catalog and reminder tables are all there after a step
RowsKept ==
    /\ DOMAIN user_plants \subseteq DOMAIN user_plants'
    /\ DOMAIN plant_reminders \subseteq DOMAIN plant_reminders'
    /\ DOMAIN all_plants \subseteq DOMAIN all_plants'

\* C17: no operation removes a row of a user's plant or of a reminder: across
\* every step the ids of both tables only grow; rows of health remarks are the
\* only ones an operation removes.
C17_NoPhysicalRemoval == [][RowsKept]_vars

\* a soft-deleted plant and a deleted reminder still stored, and a health
\* remark that was removed
C17_Witness ==
    /\ \E p \in DOMAIN user_plants : user_plants[p].is_deleted = 1
    /\ \E r \in DOMAIN plant_reminders : plant_reminders[r].is_active = 0
    /\ \E h \in 1..(autoInc.plant_health - 1) : h \notin DOMAIN plant_health

-----------------------------------------------------------------------------
(* Claims about calls that overlap                                          *)

\* C18: whatever the interleaving of addPlant and updatePlant with readers,
\* every stored plant a reader can see refers to a catalog row it can see, and
\* no catalog row inserted by a transaction that was rolled back is ever seen.
C18_TransactionalVisibility ==
    /\ \A p \in DOMAIN user_plants :
          /\ user_plants[p].plant_id \in DOMAIN all_plants
          /\ user_plants[p].is_deleted = 0 =>
                getPlantById(all_plants, user_plants, p, user_plants[p].user_id).kind = "row"
    /\ rolledBack \cap DOMAIN all_plants = {}

\* a transaction about to commit a catalog row of its own, after another
\* transaction that had inserted one was rolled back
C18_Witness ==
    /\ rolledBack # {}
    /\ \E c \in Calls : /\ calls[c].op \in {"addPlant", "updatePlant"}
                        /\ calls[c].pc = "commit"
                        /\ DOMAIN calls[c].types # {}

Quiescent == \A c \in Calls : calls[c] = Idle

\* C19: two active reminders of one plant and type, left by two overlapping
\* saves, do not last: once a later save of the plant and type, or a later
\* complete of one of the two, has run, at most one of them is active.
C19_RaceOnlyTransient ==
    Quiescent =>
        \A p \in DOMAIN user_plants, type \in SentTypes :
            user_plants[p].is_deleted = 0 =>
                /\ \A form \in ReminderForms :
                      Cardinality(ActiveOfType(
                          saveReminder(Db, tz, p, ReminderDataOf(type, form),
                                       user_plants[p].user_id).db.plant_reminders,
                          p, type)) <= 1
                /\ \A r \in ActiveOfType(plant_reminders, p, type) :
                      Cardinality(ActiveOfType(
                          completeReminder(Db, tz, now, r,
                                           user_plants[p].user_id).db.plant_reminders,
                          p, type)) <= 1

\* the plant a transaction commits refers to a visible catalog row with
\* the cultivar and species of its request
CommitReferencesType ==
    \A c \in Calls :
        (calls[c].op \in {"addPlant", "updatePlant"}
            /\ calls[c].pc = "commit"
            /\ calls'[c].op = calls[c].op /\ calls'[c].pc = "readback") =>
                /\ calls[c].plantId \in DOMAIN user_plants'
                /\ user_plants'[calls[c].plantId].plant_id \in
                      ExistingPlants(all_plants', calls[c].plantData.cultivar,
                                     calls[c].plantData.species)

\* C20: two overlapping addPlant / updatePlant calls with one (cultivar,
\* species) can both insert a catalog row, so two active rows with the pair
\* are reachable; the plant each call commits refers to an existing catalog
\* row with that pair.
C20_CatalogRace == [][CommitReferencesType]_vars

\* two active catalog rows with one (cultivar, species), each referred to by a
\* stored plant
C20_Witness ==
    \E i, j \in DOMAIN all_plants :
        /\ i # j
        /\ all_plants[i].plant_cultivar = all_plants[j].plant_cultivar
        /\ all_plants[i].plant_species = all_plants[j].plant_species
        /\ all_plants[i].is_deleted = 0 /\ all_plants[j].is_deleted = 0
        /\ \E p, q \in DOMAIN user_plants :
              user_plants[p].plant_id = i /\ user_plants[q].plant_id = j

-----------------------------------------------------------------------------
(* Claims about the health log's edits and reads                            *)

\* C21: update of an owned remark changes its remarks text and nothing else
\* and returns the remark; delete of an owned remark removes that row alone
\* and returns true; for a remark whose plant is another user's or
\* soft-deleted both return null / false and change nothing.
C21_HealthEdits ==
    \A u \in Users, h \in DOMAIN plant_health :
        LET deleted == deleteHealthRemark(Db, h, u)
        IN IF OwnedVisible(user_plants, plant_health[h].user_plant_id, u)
           THEN /\ \A text \in HealthTexts :
                      LET updated == updateHealthRemark(Db, h, text, u)
                      IN /\ updated.db = [Db EXCEPT !.plant_health[h].remarks = text]
                         /\ updated.result =
                               Row([id |-> h, remarks |-> text,
                                    createdAt |-> plant_health[h].created_at])
                /\ deleted.result = Bool(TRUE)
                /\ DOMAIN deleted.db.plant_health = DOMAIN plant_health \ {h}
                /\ \A k \in DOMAIN plant_health \ {h} :
                      deleted.db.plant_health[k] = plant_health[k]
                /\ [deleted.db EXCEPT !.plant_health = plant_health] = Db
           ELSE /\ \A text \in HealthTexts :
                      updateHealthRemark(Db, h, text, u) = Outcome(Db, Null)
                /\ deleted = Outcome(Db, Bool(FALSE))

\* two remarks of one visible plant, written at different times
C21_Witness ==
    \E h, k \in DOMAIN plant_health :
        /\ plant_health[h].user_plant_id = plant_health[k].user_plant_id
        /\ plant_health[h].created_at < plant_health[k].created_at
        /\ user_plants[plant_health[h].user_plant_id].is_deleted = 0

\* C22: the list of an owned plant holds all and only the plant's remarks,
\* newest first, and latest returns the first element of the list whenever
\* the list is not empty, also when remarks share one created_at.
C22_HealthReads ==
    \A u \in Users, p \in PlantIds :
        OwnedVisible(user_plants, p, u) =>
            \A list \in getPlantHealthRemarks(Db, p, u) :
                /\ list.kind = "rows"
                /\ IdsOf(list) = RemarksOfPlant(plant_health, p)
                /\ Len(list.rows) = Cardinality(RemarksOfPlant(plant_health, p))
                /\ \A i, j \in 1..Len(list.rows) :
                      i < j => list.rows[i].createdAt >= list.rows[j].createdAt
                /\ Len(list.rows) > 0 =>
                      \A latest \in getLatestHealthRemark(Db, p, u) :
                          latest = Row(list.rows[1])

-----------------------------------------------------------------------------
(* Claims about the reminder routes and lists                               *)

\* the start dates and intervals a valid request can carry
ValidStartDates == 0..MaxDay
ValidIntervals == 1..2

\* C23: a save request with a type outside the enum, an interval that is not
\* an integer >= 1 or a start date that is not a date is answered 400; every
\* stored reminder has an interval >= 1 and a type of the enum; and right
\* after a save nextReminder is later than startDate.
C23_ValidationFirst ==
    /\ \A req \in RejectedReminderRequests :
          PostReminderAnswer(req.type, req.form, Null).status = 400
    /\ \A r \in DOMAIN plant_reminders :
          /\ plant_reminders[r].interval_days >= 1
          /\ plant_reminders[r].reminder_type \in ReminderTypes
    /\ \A p \in DOMAIN user_plants, type \in SentTypes,
          startDate \in ValidStartDates, intervalDays \in ValidIntervals :
          user_plants[p].is_deleted = 0 =>
              LET out == saveReminder(Db, tz, p,
                             [type |-> type, intervalDays |-> intervalDays,
                              startDate |-> startDate, notes |-> None],
                             user_plants[p].user_id)
              IN out.result.row.nextReminder > out.result.row.startDate


\* the requests by session s that change the store
ApiStep(s) ==
    \/ ApiPostPlant(s, "Roma", "Tomato", PlainForm, "none")
    \/ \E p \in PlantIds : ApiDeletePlant(s, p)
    \/ \E p \in PlantIds, form \in ReminderForms : ApiPostReminder(s, p, "watering", form)
    \/ \E r \in ReminderIds : ApiDeleteReminder(s, r)
    \/ \E p \in PlantIds : ApiPostHealth(s, p, "ok")

SignedOut(s) == sessions[s] = {}

ListedReminderIds(result) == [k \in 1..Len(result.rows) |-> result.rows[k].id]

\* C25: getPlantReminders of an owned, non-deleted plant returns each of the
\* plant's reminders with isActive = true once and no other row, in
\* non-decreasing nextReminder order, the empty list when there is none
\* (answered 200); it returns null (answered 404) exactly when the plant is
\* missing, not owned or soft-deleted.
C25_ListForPlant ==
    \A u \in Users, p \in PlantIds :
       LET result == getPlantReminders(Db, p, u)
           owned == /\ p \in DOMAIN user_plants
                    /\ user_plants[p].user_id = u
                    /\ user_plants[p].is_deleted = 0
           active == {r \in DOMAIN plant_reminders :
                         /\ plant_reminders[r].user_plant_id = p
                         /\ plant_reminders[r].is_active = 1}
       IN IF owned
          THEN /\ result.kind = "rows"
               /\ Len(result.rows) = Cardinality(active)
               /\ {result.rows[k].id : k \in 1..Len(result.rows)} = active
               /\ \A k \in 1..Len(result.rows) :
                     /\ result.rows[k].isActive
                     /\ result.rows[k].nextReminder =
                           plant_reminders[result.rows[k].id].next_reminder
               /\ \A k, l \in 1..Len(result.rows) :
                     k < l => result.rows[k].nextReminder <= result.rows[l].nextReminder
               /\ GetRemindersResponse(result).status = 200
          ELSE /\ result = Null
               /\ GetRemindersResponse(result).status = 404

\* plant 1 has two active reminders, the later-made one due first; another
\* plant of its owner has reminders no more and lists as empty
C25_Witness ==
    /\ OwnedVisible(user_plants, 1, 1)
    /\ ListedReminderIds(getPlantReminders(Db, 1, 1)) = <<2, 1>>
    /\ plant_reminders[2].next_reminder < plant_reminders[1].next_reminder
    /\ \E p \in PlantIds, u \in Users :
          /\ OwnedVisible(user_plants, p, u)
          /\ getPlantReminders(Db, p, u) = Rows(<<>>)

\* ?days=N as the caller writes it
DaysText(n) == CASE n = 0 -> {"0"} [] n = 1 -> {"1"} [] n = 2 -> {"2"}

\* C26: GET /api/reminders/upcoming?days=N answers with
\* getUpcomingReminders of windowDays = N for every integer N >= 0 the
\* caller supplies (N = 0: only the reminders due today), and of
\* windowDays = 7 when days is absent or not a number.
C26_UpcomingDays ==
    \A u \in Users :
       /\ \A n \in WindowDays :
             GetUpcoming(u, DaysText(n)) = getUpcomingReminders(Db, tz, now, u, n)
       /\ \A days \in {{}, {"soon"}} :
             GetUpcoming(u, days) = getUpcomingReminders(Db, tz, now, u, 7)

\* C27: updatePlant returns null exactly for a plant that is missing, not
\* owned or soft-deleted, and then leaves every table and counter as it
\* was: no user_plants field changes and no all_plants row is created,
\* also when the (cultivar, species) sent is new to the catalog.
C27_NotFoundNoChange ==
    \A u \in Users, p \in PlantIds, r \in PlantRequests :
       LET out == updatePlant(Db, p, RoutePlantData(r.cultivar, r.species, r.form), u, "none")
           visible == /\ p \in DOMAIN user_plants
                      /\ user_plants[p].user_id = u
                      /\ user_plants[p].is_deleted = 0
       IN /\ out.result = Null <=> ~visible
          /\ out.result = Null =>
                /\ out.db.all_plants = all_plants
                /\ out.db.user_plants = user_plants
                /\ out.db.plant_reminders = plant_reminders
                /\ out.db.plant_health = plant_health
                /\ out.db.autoInc = autoInc

\* a soft-deleted plant and a plant of another user, and a pair the catalog
\* does not hold, with which the update of either returns null
C27_Witness ==
    \E u \in Users, p, q \in PlantIds, r \in PlantRequests :
       /\ p \in DOMAIN user_plants /\ user_plants[p].user_id = u
       /\ user_plants[p].is_deleted = 1
       /\ q \in DOMAIN user_plants /\ user_plants[q].user_id # u
       /\ r.cultivar # "" /\ r.failAt = "none"
       /\ ExistingPlants(all_plants, r.cultivar, r.species) = {}
       /\ updatePlant(Db, p, RoutePlantData(r.cultivar, r.species, r.form), u, "none").result = Null
       /\ updatePlant(Db, q, RoutePlantData(r.cultivar, r.species, r.form), u, "none").result = Null

\* C28: completeReminder of a reminder with is_active = 0 returns null, and
\* no step changes the next_reminder or last_completed of a reminder that
\* is inactive.
C28_CompleteOnlyActive ==
    /\ [](\A u \in Users, r \in ReminderIds :
             (r \in DOMAIN plant_reminders /\ plant_reminders[r].is_active = 0) =>
                completeReminder(Db, tz, now, r, u).result = Null)
    /\ [][\A r \in DOMAIN plant_reminders :
             plant_reminders[r].is_active = 0 =>
                /\ r \in DOMAIN plant_reminders'
                /\ plant_reminders'[r].next_reminder = plant_reminders[r].next_reminder
                /\ plant_reminders'[r].last_completed = plant_reminders[r].last_completed]_vars

\* call c returns in this step
Returns(c, op) ==
    /\ calls'[c].op = op /\ calls'[c].pc = "returned"
    /\ calls'[c] # calls[c]

\* the reminder a deleteReminder call is about
DeleteTarget(call) ==
    IF call.pc = "returned" THEN call.call.reminderId ELSE call.reminderId

\* C29: when a saveReminder call that found one active reminder of its type
\* overlaps with a deleteReminder call for that reminder, the reminder it
\* returns has isActive = true, and if the delete has already returned when
\* the save returns, the plant has exactly one active reminder of the type.
C29_SaveDuringDelete ==
    [][\A c, d \in Calls :
          (/\ c # d
           /\ Returns(c, "saveReminder")
           /\ Cardinality(calls[c].existingReminders) = 1
           /\ calls[d].op = "deleteReminder"
           /\ DeleteTarget(calls[d]) \in calls[c].existingReminders) =>
             /\ calls'[c].result.kind = "row" => calls'[c].result.row.isActive
             /\ calls[d].pc = "returned" =>
                   Cardinality({r \in DOMAIN plant_reminders' :
                       /\ plant_reminders'[r].user_plant_id = calls[c].plantId
                       /\ plant_reminders'[r].reminder_type = calls[c].reminderData.type
                       /\ plant_reminders'[r].is_active = 1}) = 1]_vars

\* C30: no step changes a user_plants row whose is_deleted is 1, and the
\* plant an updatePlant call returns is not soft-deleted when the call
\* returns: the call returns null or a row with is_deleted = 0.
C30_UpdateDuringDelete ==
    [][/\ \A p \in DOMAIN user_plants :
             user_plants[p].is_deleted = 1 => user_plants'[p] = user_plants[p]
       /\ \A c \in Calls :
             Returns(c, "updatePlant") =>
                \/ calls'[c].result = Null
                \/ /\ calls'[c].result.kind = "row"
                   /\ user_plants'[calls'[c].result.row.id].is_deleted = 0]_vars
====
